---------------------------- MODULE Spec2Model ----------------------------
(***************************************************************************)
(* A model of the rule resolution engine of theshit:                       *)
(*   - src/src/fix/python.rs   check_security, process_python_rules,       *)
(*                             get_module_name, get_common_parent          *)
(*   - src/src/shells/helpers.rs   find_shell_in_process_tree,             *)
(*                                 get_current_shell                       *)
(*   - src/src/main.rs         main                                        *)
(*   - src/src/fix/rust.rs     NativeRule::fix_native                      *)
(*   - src/src/shells/zsh.rs   parse_alias                                 *)
(*                                                                         *)
(* Text is a sequence of one-character strings; a path is the sequence of  *)
(* its components (std::path::Components), each component a text.  The     *)
(* root directory is the component <<"/">> and can only come first; the    *)
(* parent-directory component is <<".", ".">>.  An Option is a sequence of *)
(* length 0 (None) or 1 (Some).                                            *)
(***************************************************************************)
EXTENDS Integers, Sequences, FiniteSets, TLC

VARIABLES
    \* process_python_rules: the batch, the file system, the interpreter
    \* (initialised, sys.path), the locals of the call and its result
    command, rule_paths, files, py_initialized, sys_path,
    module_path, fixed_commands, idx, cur_module, pc, result,
    \* history of the call: the candidates check_security was run on, those
    \* it allowed, the files whose module was imported, what each evaluated
    \* candidate came to
    checked, passed, imported, outcome, calls,
    \* the diagnostic printed on standard error for the candidate evaluated
    \* last, none if nothing was printed for it
    diag,
    \* get_common_parent applied to a list of paths
    cp_paths, cp_out, cp_pc,
    \* get_module_name applied to (modules_dir_path, rule_path)
    mn_root, mn_path, mn_out, mn_pc,
    \* check_security applied to a file's metadata under an effective uid
    sec_meta, sec_euid, sec_out, sec_pc,
    \* find_shell_in_process_tree: the process table (parents, names), the
    \* start pid, the loop variable, the result, the pids whose name was read
    parents, names, start_pid, current_process, sh_out, sh_pc, sh_inspected,
    \* the number of passes of the walk's loop, modulo 2
    sh_passes,
    \* main: the --shell argument, SH_SHELL, the shell the ancestry walk
    \* came to, the subcommand, SH_PREV_CMD; the resolved shell, the result
    \* of the run, standard output and the steps the run has taken
    m_args_shell, m_env_shell, m_walk_shell, m_command, m_prev_cmd,
    m_shell, m_pc, m_result, m_stdout, m_steps,
    \* NativeRule::fix_native: the rule, the Command, what the rule's
    \* is_match and fix come to on it; the result, the calls made, stderr
    n_rule, n_command, n_is_match, n_fix, n_pc, n_out, n_calls, n_stderr,
    \* parse_alias applied to a text
    al_raw, al_out, al_pc,
    \* threads of one process calling process_python_rules: each thread's
    \* position and loop index, the holder of the interpreter lock, the
    \* number of initialisations, sys.path, the head of sys.path each
    \* import saw
    th_pc, th_idx, th_gil, th_inits, th_sys_path, th_seen

pyVars == <<command, rule_paths, files, py_initialized, sys_path, module_path,
           fixed_commands, idx, cur_module, pc, result,
           checked, passed, imported, outcome, calls, diag>>
cpVars == <<cp_paths, cp_out, cp_pc>>
mnVars == <<mn_root, mn_path, mn_out, mn_pc>>
secVars == <<sec_meta, sec_euid, sec_out, sec_pc>>
shVars == <<parents, names, start_pid, current_process, sh_out, sh_pc, sh_inspected,
           sh_passes>>
mainVars == <<m_args_shell, m_env_shell, m_walk_shell, m_command, m_prev_cmd,
             m_shell, m_pc, m_result, m_stdout, m_steps>>
natVars == <<n_rule, n_command, n_is_match, n_fix, n_pc, n_out, n_calls, n_stderr>>
alVars == <<al_raw, al_out, al_pc>>
thVars == <<th_pc, th_idx, th_gil, th_inits, th_sys_path, th_seen>>
otherVars == <<mainVars, natVars, alVars, thVars>>
vars == <<pyVars, cpVars, mnVars, secVars, shVars, otherVars>>

---------------------------------------------------------------------------
(* Bounds *)

\* longest path, in components, given to the path functions
MaxDepth == 2
\* longest list of paths given to get_common_parent
MaxPaths == 2
\* largest user id of a file owner or of the process
MaxUid == 1
\* largest process id of the process table
MaxPid == 2
\* longest batch of candidate paths given to process_python_rules
MaxBatch == 3

---------------------------------------------------------------------------
(* Option and text helpers *)

None == <<>>
Some(v) == <<v>>
IsSome(o) == Len(o) = 1
Unwrap(o) == o[1]

T(s) == <<s>>

Idle == "idle"

RECURSIVE JoinWith(_, _)
\* the texts of ss joined by the text sep
JoinWith(ss, sep) ==
    IF ss = <<>> THEN <<>>
    ELSE IF Len(ss) = 1 THEN ss[1]
    ELSE ss[1] \o sep \o JoinWith(Tail(ss), sep)

\* str::replace(['/', '\\'], "."): every '/' and '\' becomes '.'
ReplaceSeparators(s) ==
    [i \in 1..Len(s) |-> IF s[i] \in {"/", "\\"} THEN "." ELSE s[i]]

\* the set of all sequences over S of length at most n
SeqUpTo(S, n) == UNION {[1..k -> S] : k \in 0..n}

---------------------------------------------------------------------------
(* std::path as used by python.rs *)

RootDir == <<"/">>
ParentDir == <<".", ".">>

IsNormal(c) == c # RootDir /\ c # ParentDir

\* Path::to_string_lossy of a path given by its components
PathToString(p) ==
    IF p # <<>> /\ p[1] = RootDir
    THEN <<"/">> \o JoinWith(Tail(p), <<"/">>)
    ELSE JoinWith(p, <<"/">>)

\* Path::parent: None for the empty path and for a path ending in the root
PathParent(p) ==
    IF p = <<>> \/ p[Len(p)] = RootDir THEN None
    ELSE Some(SubSeq(p, 1, Len(p) - 1))

\* Path::strip_prefix: the rest of p after base, Err (None) if base is no prefix
StripPrefix(p, base) ==
    IF Len(base) <= Len(p) /\ SubSeq(p, 1, Len(base)) = base
    THEN Some(SubSeq(p, Len(base) + 1, Len(p)))
    ELSE None

\* Path::file_name: the last component when it is a normal one
FileName(p) ==
    IF p # <<>> /\ IsNormal(p[Len(p)]) THEN Some(p[Len(p)]) ELSE None

\* the position of the last '.' of a text, 0 if it has none
LastDot(s) ==
    LET D == {i \in 1..Len(s) : s[i] = "."}
    IN IF D = {} THEN 0 ELSE CHOOSE i \in D : \A j \in D : j <= i

\* Path::file_stem: the file name up to its last '.', the whole name when it
\* has no '.' or only a leading one
FileStem(p) ==
    IF ~IsSome(FileName(p)) THEN None
    ELSE LET f == Unwrap(FileName(p))
             k == LastDot(f)
         IN IF k <= 1 THEN Some(f) ELSE Some(SubSeq(f, 1, k - 1))

---------------------------------------------------------------------------
(* AppResult and check_security *)

Ok(v) == [ok |-> TRUE, val |-> v, kind |-> "", msg |-> ""]
Err(k, m) == [ok |-> FALSE, val |-> <<>>, kind |-> k, msg |-> m]
\* the result of a call that has not returned
Pending == [ok |-> FALSE, val |-> <<>>, kind |-> "pending", msg |-> ""]

\* the metadata of a file: exists is FALSE when fs::metadata fails
Meta(e, u, m) == [exists |-> e, uid |-> u, mode |-> m]

RECURSIVE BitAnd(_, _)
\* a & b on non-negative integers
BitAnd(a, b) ==
    IF a = 0 \/ b = 0 THEN 0
    ELSE (a % 2) * (b % 2) + 2 * BitAnd(a \div 2, b \div 2)

\* 0o022: the group-write and other-write bits
WriteMask == 18

\* check_security that tests the other-write bit only
check_security_other_only(meta, current_uid) ==
    IF ~meta.exists THEN Err("Io", "metadata")
    ELSE IF current_uid # meta.uid THEN Err("Security", "owned by another uid")
    ELSE IF BitAnd(meta.mode, 2) # 0
    THEN Err("Security", "writable by non-owners")
    ELSE Ok(<<>>)

check_security(meta, current_uid) ==
    IF ~meta.exists THEN Err("Io", "metadata")
    ELSE IF current_uid # meta.uid THEN Err("Security", "owned by another uid")
    ELSE IF BitAnd(meta.mode, WriteMask) # 0
    THEN Err("Security", "writable by non-owners")
    ELSE Ok(<<>>)

---------------------------------------------------------------------------
(* get_common_parent *)

RECURSIVE CommonLen(_, _)
\* zip(a, b).take_while(|(a, b)| a == b): the length of the common prefix
CommonLen(a, b) ==
    IF a = <<>> \/ b = <<>> \/ Head(a) # Head(b) THEN 0
    ELSE 1 + CommonLen(Tail(a), Tail(b))

RECURSIVE FoldCommon(_, _)
\* iter.fold(first, ...): acc cut to its common prefix with each later path
FoldCommon(acc, rest) ==
    IF rest = <<>> THEN acc
    ELSE FoldCommon(SubSeq(acc, 1, CommonLen(acc, Head(rest))), Tail(rest))

\* get_common_parent with the empty common prefix returned as a path
get_common_parent_keeps_empty(paths) ==
    IF paths = <<>> THEN None
    ELSE IF Len(paths) = 1
    THEN (IF IsSome(PathParent(paths[1]))
          THEN Some(Unwrap(PathParent(paths[1])))
          ELSE Some(<<>>))
    ELSE Some(FoldCommon(paths[1], Tail(paths)))

get_common_parent(paths) ==
    IF paths = <<>> THEN None
    ELSE IF Len(paths) = 1
    THEN (IF IsSome(PathParent(paths[1]))
          THEN Some(Unwrap(PathParent(paths[1])))
          ELSE Some(<<>>))
    ELSE LET common == FoldCommon(paths[1], Tail(paths))
         IN IF common = <<>> THEN None ELSE Some(common)

---------------------------------------------------------------------------
(* get_module_name *)

\* PathBuf::push of a name onto a path's string: a separator is added unless
\* the string is empty or already ends with one
PushString(dir, name) ==
    IF dir = <<>> \/ dir[Len(dir)] = "/" THEN dir \o name
    ELSE dir \o <<"/">> \o name

get_module_name(modules_dir_path, rule_path) ==
    LET stripped == StripPrefix(rule_path, modules_dir_path)
    IN IF ~IsSome(stripped) THEN None
       ELSE LET rel == Unwrap(stripped)
                rel_parent == IF IsSome(PathParent(rel))
                              THEN Unwrap(PathParent(rel)) ELSE <<>>
                stem == FileStem(rule_path)
            IN IF ~IsSome(stem) THEN None
               ELSE Some(ReplaceSeparators(
                        PushString(PathToString(rel_parent), Unwrap(stem))))

---------------------------------------------------------------------------
(* The script engine: import by module name *)

RECURSIVE SplitDots(_)
\* str.split('.') of a module name: its dotted parts
SplitDots(s) ==
    LET D == {i \in 1..Len(s) : s[i] = "."}
    IN IF D = {} THEN <<s>>
       ELSE LET k == CHOOSE i \in D : \A j \in D : i <= j
            IN <<SubSeq(s, 1, k - 1)>> \o SplitDots(SubSeq(s, k + 1, Len(s)))

\* the source file the import of name looks for under the directory dir of
\* sys.path: dir/part1/.../partN.py, none for a name with an empty part
ModuleFile(dir, name) ==
    LET parts == SplitDots(name)
    IN IF \E i \in 1..Len(parts) : parts[i] = <<>> THEN None
       ELSE Some(PushString(dir, JoinWith(parts, <<"/">>) \o <<".", "p", "y">>))

\* py.import(name): the existing file the name resolves to under the head
\* of sys.path, none when there is no such file
ImportTarget(name) ==
    LET want == ModuleFile(sys_path[1], name)
        found == {f \in DOMAIN files :
                     files[f].exists /\ want = Some(PathToString(f))}
    IN IF found = {} THEN None ELSE Some(CHOOSE f \in found : TRUE)

---------------------------------------------------------------------------
(* process_python_rules *)

\* geteuid() of the process
EffectiveUid == 1

\* what an evaluated candidate came to: skipped, no_match or fixed
Skipped(path) == [path |-> path, step |-> "skipped", out |-> None]
NoMatch(path) == [path |-> path, step |-> "no_match", out |-> None]
Fixed(path, cmd) == [path |-> path, step |-> "fixed", out |-> Some(cmd)]

\* Vec::push at the front instead of the back
Push_front(v, x) == <<x>> \o v

\* Vec::push
Push(v, x) == Append(v, x)

\* the values a call of a rule's match can come to
MatchResults == {"raise", "not_bool", "false", "true"}
\* the values a call of a rule's fix can come to: an error or a string
FixFailures == {"raise", "not_str"}
FixStrings == {"cmd1", "cmd3"}
\* the module attributes found by getattr and is_callable
\* an attribute is absent, present but not callable, or callable
Attrs == {"absent", "not_callable", "callable"}
\* a module with both functions, and modules that lack match, fix or both,
\* as an attribute or as a callable
ModuleShapes ==
    { [match |-> "callable", fix |-> "callable"],
      [match |-> "absent", fix |-> "callable"],
      [match |-> "callable", fix |-> "absent"],
      [match |-> "absent", fix |-> "absent"],
      [match |-> "not_callable", fix |-> "callable"],
      [match |-> "callable", fix |-> "not_callable"],
      [match |-> "not_callable", fix |-> "not_callable"] }
\* the arguments of call1: command, stdout and stderr of the Command
CallArgs(c) == <<c.command, c.stdout, c.stderr>>
\* a call of a rule's function for the candidate at index i, and what
\* call1 and extract made of it: the value, or "error"
Call(fn, i, args, ret) == [fn |-> fn, cand |-> i, args |-> args, ret |-> ret]
\* how reading and extending sys.path can fail
EngineFailures == {"Failed to import sys", "Failed to get sys.path",
                   "sys.path is not a list", "Failed to insert path"}

pyFrame == <<command, rule_paths, files>>
notPy == <<cpVars, mnVars, secVars, shVars, otherVars>>

\* eprintln! of a diagnostic for the candidate at idx, by its leading text,
\* and of the error e that goes with it
Eprintln(text, e) ==
    diag' = Some([cand |-> idx, text |-> text, error |-> e,
                  shape |-> IF IsSome(cur_module) THEN Some(Unwrap(cur_module).shape)
                            ELSE None])

\* the candidate at idx is over and nothing was printed for it
Quiet == diag' = None

\* `continue`: the candidate is over, the loop goes to the next one
Continue(o) ==
    /\ outcome' = Append(outcome, o)
    /\ idx' = idx + 1
    /\ cur_module' = None
    /\ pc' = "loop"

\* the emptiness test placed after prepare_freethreaded_python
ReturnEmpty_after_prepare ==
    /\ pc = "begin"
    /\ rule_paths = <<>>
    /\ py_initialized' = TRUE
    /\ result' = Ok(<<>>)
    /\ pc' = "done"
    /\ UNCHANGED <<notPy, diag, calls, pyFrame, sys_path, module_path,
                   fixed_commands, idx, cur_module,
                   checked, passed, imported, outcome>>

\* rule_paths.is_empty(): return Ok(vec![])
ReturnEmpty ==
    /\ pc = "begin"
    /\ rule_paths = <<>>
    /\ result' = Ok(<<>>)
    /\ pc' = "done"
    /\ UNCHANGED <<notPy, diag, calls, pyFrame, py_initialized, sys_path, module_path,
                   fixed_commands, idx, cur_module,
                   checked, passed, imported, outcome>>

\* the Config error raised after prepare_freethreaded_python
NoCommonParent_after_prepare ==
    /\ pc = "begin"
    /\ rule_paths # <<>>
    /\ ~IsSome(get_common_parent(rule_paths))
    /\ py_initialized' = TRUE
    /\ result' = Err("Config", "No common parent found for rule paths")
    /\ pc' = "done"
    /\ UNCHANGED <<notPy, diag, calls, pyFrame, sys_path, module_path,
                   fixed_commands, idx, cur_module,
                   checked, passed, imported, outcome>>

\* get_common_parent is None: the Config error
NoCommonParent ==
    /\ pc = "begin"
    /\ rule_paths # <<>>
    /\ ~IsSome(get_common_parent(rule_paths))
    /\ result' = Err("Config", "No common parent found for rule paths")
    /\ pc' = "done"
    /\ UNCHANGED <<notPy, diag, calls, pyFrame, py_initialized, sys_path, module_path,
                   fixed_commands, idx, cur_module,
                   checked, passed, imported, outcome>>

\* get_common_parent is Some: module_path and the empty fixed_commands
CommonParentFound ==
    /\ pc = "begin"
    /\ rule_paths # <<>>
    /\ IsSome(get_common_parent(rule_paths))
    /\ module_path' = Unwrap(get_common_parent(rule_paths))
    /\ fixed_commands' = <<>>
    /\ pc' = "prepare"
    /\ UNCHANGED <<notPy, diag, calls, pyFrame, py_initialized, sys_path, idx, cur_module, result,
                   checked, passed, imported, outcome>>

\* pyo3::prepare_freethreaded_python()
PreparePython ==
    /\ pc = "prepare"
    /\ py_initialized' = TRUE
    /\ pc' = "sys_path"
    /\ UNCHANGED <<notPy, diag, calls, pyFrame, sys_path, module_path, fixed_commands, idx,
                   cur_module, result, checked, passed, imported, outcome>>

\* sys.path.insert(0, module_path), then the loop starts
InsertSysPath ==
    /\ pc = "sys_path"
    /\ sys_path' = <<PathToString(module_path)>> \o sys_path
    /\ idx' = 1
    /\ pc' = "loop"
    /\ UNCHANGED <<notPy, diag, calls, pyFrame, py_initialized, module_path, fixed_commands,
                   cur_module, result, checked, passed, imported, outcome>>

\* importing sys, reading sys.path or inserting into it fails: the error
\* leaves the closure and the call through the two `?`
EngineFails ==
    /\ pc = "sys_path"
    /\ \E m \in EngineFailures : result' = Err("Python", m)
    /\ pc' = "done"
    /\ UNCHANGED <<notPy, diag, calls, pyFrame, py_initialized, sys_path, module_path,
                   fixed_commands, idx, cur_module,
                   checked, passed, imported, outcome>>

LoopFrame == <<pyFrame, py_initialized, sys_path, module_path, result>>

\* check_security fails; the error aborts the call
AbortDenied ==
    /\ pc = "loop" /\ idx <= Len(rule_paths)
    /\ ~check_security(files[rule_paths[idx]], EffectiveUid).ok
    /\ checked' = checked \cup {rule_paths[idx]}
    /\ result' = check_security(files[rule_paths[idx]], EffectiveUid)
    /\ pc' = "done"
    /\ UNCHANGED <<notPy, diag, calls, pyFrame, py_initialized, sys_path, module_path,
                   fixed_commands, idx, cur_module, passed, imported, outcome>>

\* check_security fails: the error is printed and the candidate skipped
SkipDenied ==
    /\ pc = "loop" /\ idx <= Len(rule_paths)
    /\ ~check_security(files[rule_paths[idx]], EffectiveUid).ok
    /\ checked' = checked \cup {rule_paths[idx]}
    /\ Eprintln("security", "")
    /\ Continue(Skipped(rule_paths[idx]))
    /\ UNCHANGED <<notPy, calls, LoopFrame, fixed_commands, passed, imported>>

\* check_security succeeds
SecurityPassed ==
    /\ pc = "loop" /\ idx <= Len(rule_paths)
    /\ check_security(files[rule_paths[idx]], EffectiveUid).ok
    /\ checked' = checked \cup {rule_paths[idx]}
    /\ passed' = passed \cup {rule_paths[idx]}
    /\ pc' = "import"
    /\ UNCHANGED <<notPy, diag, calls, LoopFrame, fixed_commands, idx, cur_module, imported, outcome>>

\* get_module_name is None
SkipNoModuleName ==
    /\ pc = "import"
    /\ ~IsSome(get_module_name(module_path, rule_paths[idx]))
    /\ Eprintln("no module name", "")
    /\ Continue(Skipped(rule_paths[idx]))
    /\ UNCHANGED <<notPy, calls, LoopFrame, fixed_commands, checked, passed, imported>>

\* py.import fails (no such module, or the module raises); the error
\* leaves the call
ImportFails_propagates ==
    /\ pc = "import"
    /\ IsSome(get_module_name(module_path, rule_paths[idx]))
    /\ result' = Err("Python", "Failed to import rule module")
    /\ pc' = "done"
    /\ UNCHANGED <<notPy, diag, calls, pyFrame, py_initialized, sys_path, module_path,
                   fixed_commands, idx, cur_module,
                   checked, passed, imported, outcome>>

\* py.import fails (no such module, or the module raises)
ImportFails ==
    /\ pc = "import"
    /\ IsSome(get_module_name(module_path, rule_paths[idx]))
    /\ Eprintln("Failed to import rule module", "")
    /\ Continue(Skipped(rule_paths[idx]))
    /\ UNCHANGED <<notPy, calls, LoopFrame, fixed_commands, checked, passed, imported>>

\* py.import succeeds: the code of the file the name resolves to has run
ImportOk ==
    /\ pc = "import"
    /\ IsSome(get_module_name(module_path, rule_paths[idx]))
    /\ LET target == ImportTarget(Unwrap(get_module_name(module_path, rule_paths[idx])))
       IN /\ IsSome(target)
          /\ \E shape \in ModuleShapes :
                cur_module' = Some([file |-> Unwrap(target), shape |-> shape])
          /\ imported' = imported \cup {Unwrap(target)}
    /\ pc' = "lookup"
    /\ UNCHANGED <<notPy, diag, calls, LoopFrame, fixed_commands, idx, checked, passed, outcome>>

\* module.getattr("match") fails
SkipNoMatchAttr ==
    /\ pc = "lookup"
    /\ Unwrap(cur_module).shape.match = "absent"
    /\ Eprintln("Failed to get 'match' function", "")
    /\ Continue(Skipped(rule_paths[idx]))
    /\ UNCHANGED <<notPy, calls, LoopFrame, fixed_commands, checked, passed, imported>>

\* module.getattr("fix") fails
SkipNoFixAttr ==
    /\ pc = "lookup"
    /\ Unwrap(cur_module).shape.match # "absent"
    /\ Unwrap(cur_module).shape.fix = "absent"
    /\ Eprintln("Failed to get 'fix' function", "")
    /\ Continue(Skipped(rule_paths[idx]))
    /\ UNCHANGED <<notPy, calls, LoopFrame, fixed_commands, checked, passed, imported>>

\* match and fix are both found
BothFound(shape) == shape.match # "absent" /\ shape.fix # "absent"

\* a match that is found but not callable passing for callable
BothCallable_fix_only(shape) == shape.fix = "callable"

\* match_func.is_callable() && fix_func.is_callable()
BothCallable(shape) == shape.match = "callable" /\ shape.fix = "callable"

\* match and fix are found, one of them is not callable: the else branch
SkipMissingFunctions ==
    /\ pc = "lookup"
    /\ BothFound(Unwrap(cur_module).shape)
    /\ ~BothCallable(Unwrap(cur_module).shape)
    /\ Eprintln("missing required functions (match, fix)", "")
    /\ Continue(Skipped(rule_paths[idx]))
    /\ UNCHANGED <<notPy, calls, LoopFrame, fixed_commands, checked, passed, imported>>

\* match and fix are both found and callable
FunctionsCallable ==
    /\ pc = "lookup"
    /\ BothFound(Unwrap(cur_module).shape)
    /\ BothCallable(Unwrap(cur_module).shape)
    /\ pc' = "match"
    /\ UNCHANGED <<notPy, diag, calls, LoopFrame, fixed_commands, idx, cur_module,
                   checked, passed, imported, outcome>>

\* match raises or returns no bool
SkipMatchFailed ==
    /\ pc = "match"
    /\ calls' = Append(calls, Call("match", idx, CallArgs(command), "error"))
    /\ \E r \in MatchResults \ {"false", "true"} :
          Eprintln("Failed to execute 'match' function", r)
    /\ Continue(Skipped(rule_paths[idx]))
    /\ UNCHANGED <<notPy, LoopFrame, fixed_commands, checked, passed, imported>>

\* match returns false, and fix is called all the same
MatchFalse_calls_fix ==
    /\ pc = "match"
    /\ calls' = Append(calls, Call("match", idx, CallArgs(command), "false"))
    /\ pc' = "fix"
    /\ UNCHANGED <<notPy, diag, LoopFrame, fixed_commands, idx, cur_module,
                   checked, passed, imported, outcome>>

\* match returns false
MatchFalse ==
    /\ pc = "match"
    /\ calls' = Append(calls, Call("match", idx, CallArgs(command), "false"))
    /\ Quiet
    /\ Continue(NoMatch(rule_paths[idx]))
    /\ UNCHANGED <<notPy, LoopFrame, fixed_commands, checked, passed, imported>>

\* match returns true
MatchTrue ==
    /\ pc = "match"
    /\ calls' = Append(calls, Call("match", idx, CallArgs(command), "true"))
    /\ pc' = "fix"
    /\ UNCHANGED <<notPy, diag, LoopFrame, fixed_commands, idx, cur_module,
                   checked, passed, imported, outcome>>

\* fix raises or returns no string
SkipFixFailed ==
    /\ pc = "fix"
    /\ calls' = Append(calls, Call("fix", idx, CallArgs(command), "error"))
    /\ \E r \in FixFailures :
          Eprintln("Failed to execute 'fix' function", r)
    /\ Continue(Skipped(rule_paths[idx]))
    /\ UNCHANGED <<notPy, LoopFrame, fixed_commands, checked, passed, imported>>

\* fix returns a string: fixed_commands.push(fixed_command)
FixOk ==
    /\ pc = "fix"
    /\ \E cmd \in FixStrings :
          /\ calls' = Append(calls, Call("fix", idx, CallArgs(command), cmd))
          /\ fixed_commands' = Push(fixed_commands, cmd)
          /\ Continue(Fixed(rule_paths[idx], cmd))
    /\ Quiet
    /\ UNCHANGED <<notPy, LoopFrame, checked, passed, imported>>

\* the loop is over: Ok(fixed_commands)
ReturnFixed ==
    /\ pc = "loop" /\ idx > Len(rule_paths)
    /\ result' = Ok(fixed_commands)
    /\ pc' = "done"
    /\ UNCHANGED <<notPy, diag, calls, pyFrame, py_initialized, sys_path, module_path,
                   fixed_commands, idx, cur_module,
                   checked, passed, imported, outcome>>

---------------------------------------------------------------------------
(* find_shell_in_process_tree *)

\* the shell identifiers Shell::from_str accepts
KnownShells == {"bash", "zsh", "fish"}

\* Shell::from_str: the shell of exactly that name
ShellFromStr(name) == IF name \in KnownShells THEN Some(name) ELSE None

\* ProcessInspector::get_parent_pid and get_exe_name on the process table
GetParentPid(pid) == IF pid \in DOMAIN parents THEN parents[pid] ELSE None
GetExeName(pid) == IF pid \in DOMAIN names THEN names[pid] ELSE None

\* the if-let chain of the loop: the name is present and names a shell
ShellOf(pid) ==
    IF IsSome(GetExeName(pid)) THEN ShellFromStr(Unwrap(GetExeName(pid)))
    ELSE None

\* the match arm that continues the walk, without the test for pid 0
WalksUp_any_parent(parent) == IsSome(parent)

\* the match arm Some(parent_pid) if parent_pid != 0
WalksUp(parent) == IsSome(parent) /\ Unwrap(parent) # 0

notSh == <<pyVars, cpVars, mnVars, secVars, otherVars>>

\* one more pass of the loop
Pass == sh_passes' = (sh_passes + 1) % 2

\* one pass of the loop that returns the shell of the current process
ShellFound ==
    /\ sh_pc = "loop"
    /\ IsSome(ShellOf(current_process))
    /\ sh_inspected' = sh_inspected \cup {current_process}
    /\ Pass
    /\ sh_out' = ShellOf(current_process)
    /\ sh_pc' = "done"
    /\ UNCHANGED <<notSh, parents, names, start_pid, current_process>>

\* one pass of the loop that moves to the parent
ShellWalkUp ==
    /\ sh_pc = "loop"
    /\ ~IsSome(ShellOf(current_process))
    /\ WalksUp(GetParentPid(current_process))
    /\ sh_inspected' = sh_inspected \cup {current_process}
    /\ Pass
    /\ current_process' = Unwrap(GetParentPid(current_process))
    /\ UNCHANGED <<notSh, parents, names, start_pid, sh_out, sh_pc>>

\* one pass of the loop that ends the walk without a shell
ShellNotFound ==
    /\ sh_pc = "loop"
    /\ ~IsSome(ShellOf(current_process))
    /\ ~WalksUp(GetParentPid(current_process))
    /\ sh_inspected' = sh_inspected \cup {current_process}
    /\ Pass
    /\ sh_out' = None
    /\ sh_pc' = "done"
    /\ UNCHANGED <<notSh, parents, names, start_pid, current_process>>

---------------------------------------------------------------------------
(* Inputs of the path functions *)

\* component names: a directory, files with one and two dots, a dot file,
\* a name with a backslash, the parent directory
Names == { T("a"), <<"b", ".", "p", "y">>, <<"a", ".", "b", ".", "p", "y">>,
           <<".", "h">>, <<"a", "\\", "b">>, ParentDir }

\* the paths of at most n components: the root can only come first
PathsUpTo(n) ==
    {p \in SeqUpTo(Names \cup {RootDir}, n) :
        \A i \in 2..Len(p) : p[i] # RootDir}

---------------------------------------------------------------------------
(* Specification of get_common_parent on bounded lists *)

CpIdle == cp_paths = <<>> /\ cp_out = None /\ cp_pc = Idle
MnIdle == mn_root = <<>> /\ mn_path = <<>> /\ mn_out = None /\ mn_pc = Idle
PyIdle ==
    /\ rule_paths = <<>> /\ files = <<>> /\ py_initialized = FALSE
    /\ sys_path = <<>> /\ module_path = <<>> /\ fixed_commands = <<>>
    /\ idx = 0 /\ cur_module = None /\ pc = Idle /\ result = Pending
    /\ checked = {} /\ passed = {} /\ imported = {} /\ outcome = <<>>
    /\ command = <<>> /\ calls = <<>> /\ diag = None
ShIdle ==
    /\ parents = <<>> /\ names = <<>> /\ start_pid = 0 /\ current_process = 0
    /\ sh_out = None /\ sh_pc = Idle /\ sh_inspected = {} /\ sh_passes = 0
SecIdle ==
    sec_meta = Meta(FALSE, 0, 0) /\ sec_euid = 0 /\ sec_out = Ok(<<>>) /\ sec_pc = Idle
MainIdle ==
    /\ m_args_shell = None /\ m_env_shell = None /\ m_walk_shell = None
    /\ m_command = Idle /\ m_prev_cmd = None /\ m_shell = None
    /\ m_pc = Idle /\ m_result = Pending /\ m_stdout = <<>> /\ m_steps = <<>>
NatIdle ==
    /\ n_rule = Idle /\ n_command = <<>> /\ n_is_match = FALSE /\ n_fix = Ok(<<>>)
    /\ n_pc = Idle /\ n_out = None /\ n_calls = <<>> /\ n_stderr = <<>>
AlIdle == al_raw = <<>> /\ al_out = <<>> /\ al_pc = Idle
ThIdle ==
    /\ th_pc = <<>> /\ th_idx = <<>> /\ th_gil = 0 /\ th_inits = 0
    /\ th_sys_path = <<>> /\ th_seen = {}
OtherIdle == MainIdle /\ NatIdle /\ AlIdle /\ ThIdle

\* the components of the lists given to get_common_parent
CpNames == { T("a"), <<"b", ".", "p", "y">>, T("c") }

CpPathsUpTo(n) ==
    {p \in SeqUpTo(CpNames \cup {RootDir}, n) :
        \A i \in 2..Len(p) : p[i] # RootDir}

InitCommonParent ==
    /\ cp_paths \in SeqUpTo(CpPathsUpTo(MaxDepth), MaxPaths)
    /\ cp_out = None
    /\ cp_pc = "call"
    /\ MnIdle /\ SecIdle /\ ShIdle /\ PyIdle /\ OtherIdle

CallCommonParent ==
    /\ cp_pc = "call"
    /\ cp_out' = get_common_parent(cp_paths)
    /\ cp_pc' = "done"
    /\ UNCHANGED <<cp_paths, mnVars, secVars, shVars, pyVars, otherVars>>

NextCommonParent == CallCommonParent

SpecCommonParent == InitCommonParent /\ [][NextCommonParent]_vars

---------------------------------------------------------------------------
(* Specification of get_module_name on bounded pairs of paths *)

InitModuleName ==
    /\ mn_root \in PathsUpTo(MaxDepth)
    /\ mn_path \in PathsUpTo(MaxDepth)
    /\ mn_out = None
    /\ mn_pc = "call"
    /\ CpIdle /\ SecIdle /\ ShIdle /\ PyIdle /\ OtherIdle

CallModuleName ==
    /\ mn_pc = "call"
    /\ mn_out' = get_module_name(mn_root, mn_path)
    /\ mn_pc' = "done"
    /\ UNCHANGED <<mn_root, mn_path, cpVars, secVars, shVars, pyVars, otherVars>>

NextModuleName == CallModuleName

SpecModuleName == InitModuleName /\ [][NextModuleName]_vars

---------------------------------------------------------------------------
(* Specification of check_security on bounded metadata *)

\* st_mode values: the nine permission bits, with and without the
\* regular-file type bit 0o100000
Modes == {t * 32768 + m : t \in {0, 1}, m \in 0..511}

InitSecurity ==
    /\ sec_meta \in {Meta(e, u, m) : e \in BOOLEAN, u \in 0..MaxUid, m \in Modes}
    /\ sec_euid \in 0..MaxUid
    /\ sec_out = Ok(<<>>)
    /\ sec_pc = "call"
    /\ CpIdle /\ MnIdle /\ ShIdle /\ PyIdle /\ OtherIdle

CallCheckSecurity ==
    /\ sec_pc = "call"
    /\ sec_out' = check_security(sec_meta, sec_euid)
    /\ sec_pc' = "done"
    /\ UNCHANGED <<sec_meta, sec_euid, cpVars, mnVars, shVars, pyVars, otherVars>>

NextSecurity == CallCheckSecurity

SpecSecurity == InitSecurity /\ [][NextSecurity]_vars

---------------------------------------------------------------------------
(* Specification of process_python_rules on bounded batches *)

\* the candidate paths: /r/a/b.py, /r/a.b.py, the relative y.py and /r/..,
\* which has no file stem
FileAB == <<RootDir, T("r"), T("a"), <<"b", ".", "p", "y">>>>
FileADotB == <<RootDir, T("r"), <<"a", ".", "b", ".", "p", "y">>>>
FileY == << <<"y", ".", "p", "y">> >>
FileUp == <<RootDir, T("r"), ParentDir>>
RuleFiles == {FileAB, FileADotB, FileY, FileUp}

\* a file is missing, or owned by the process or by root with mode 0o600,
\* or owned by the process with mode 0o620
FileMetas == { Meta(FALSE, 0, 0), Meta(TRUE, EffectiveUid, 384),
               Meta(TRUE, 0, 384), Meta(TRUE, EffectiveUid, 400) }

\* the Command of the call, its three texts different from one another
Commands == { [command |-> "cs /some/directory", stdout |-> "out", stderr |-> "err"] }

\* sys.path before the call: the standard library
StdLibPath == <<"/", "l", "i", "b">>

Init ==
    /\ command \in Commands
    /\ calls = <<>>
    /\ diag = None
    /\ rule_paths \in SeqUpTo(RuleFiles, MaxBatch)
    /\ files \in [RuleFiles -> FileMetas]
    \* a file that is no candidate and no module of a candidate's name is
    \* never looked at: it is taken as missing
    /\ \A f \in RuleFiles :
          (f # FileAB /\ \A i \in 1..Len(rule_paths) : rule_paths[i] # f)
              => ~files[f].exists
    /\ py_initialized = FALSE
    /\ sys_path = <<StdLibPath>>
    /\ module_path = <<>>
    /\ fixed_commands = <<>>
    /\ idx = 0
    /\ cur_module = None
    /\ pc = "begin"
    /\ result = Pending
    /\ checked = {} /\ passed = {} /\ imported = {} /\ outcome = <<>>
    /\ CpIdle /\ MnIdle /\ SecIdle /\ ShIdle /\ OtherIdle

Next ==
    \/ ReturnEmpty \/ NoCommonParent \/ CommonParentFound
    \/ PreparePython \/ InsertSysPath \/ EngineFails
    \/ SkipDenied \/ SecurityPassed
    \/ SkipNoModuleName \/ ImportFails \/ ImportOk
    \/ SkipNoMatchAttr \/ SkipNoFixAttr
    \/ SkipMissingFunctions \/ FunctionsCallable
    \/ SkipMatchFailed \/ MatchFalse \/ MatchTrue
    \/ SkipFixFailed \/ FixOk
    \/ ReturnFixed

Spec == Init /\ [][Next]_vars

---------------------------------------------------------------------------
(* Specification of find_shell_in_process_tree on bounded process tables *)

Pids == 0..MaxPid

\* executable names: two shells, a name that contains a shell name
ExeNames == {"bash", "zsh", "bash_unknown"}

\* any partial map from pid to parent pid and from pid to name
InitShell ==
    /\ parents \in [Pids -> {None} \cup {Some(q) : q \in Pids}]
    /\ names \in [Pids -> {None} \cup {Some(n) : n \in ExeNames}]
    /\ start_pid \in Pids
    /\ current_process = start_pid
    /\ sh_out = None
    /\ sh_pc = "loop"
    /\ sh_inspected = {}
    /\ sh_passes = 0
    /\ CpIdle /\ MnIdle /\ SecIdle /\ PyIdle /\ OtherIdle

NextShell == ShellFound \/ ShellWalkUp \/ ShellNotFound

SpecShell == InitShell /\ [][NextShell]_vars

\* the loop has no await: a pass that can be taken is taken
SpecShellFair == SpecShell /\ WF_vars(NextShell)

---------------------------------------------------------------------------
(* Claims about check_security *)

GroupWritable(mode) == (mode \div 16) % 2 = 1
OtherWritable(mode) == (mode \div 2) % 2 = 1

\* C2: check_security denies with Io when the metadata cannot be read, else
\* with Security when the owner is not the effective uid whatever the mode,
\* else with Security when the group-write or other-write bit is set, and
\* returns Ok exactly when none of the three applies.
C2_CheckSecurity ==
    sec_pc = "done" =>
        /\ sec_out.ok <=> (/\ sec_meta.exists
                           /\ sec_meta.uid = sec_euid
                           /\ ~GroupWritable(sec_meta.mode)
                           /\ ~OtherWritable(sec_meta.mode))
        /\ ~sec_meta.exists => sec_out = Err("Io", "metadata")
        /\ (sec_meta.exists /\ sec_meta.uid # sec_euid)
               => sec_out = Err("Security", "owned by another uid")
        /\ (/\ sec_meta.exists /\ sec_meta.uid = sec_euid
            /\ (GroupWritable(sec_meta.mode) \/ OtherWritable(sec_meta.mode)))
               => sec_out = Err("Security", "writable by non-owners")

\* a group-writable file of the effective user, other-write clear, is denied
C2_Witness ==
    /\ sec_pc = "done"
    /\ sec_meta.exists /\ sec_meta.uid = sec_euid
    /\ GroupWritable(sec_meta.mode) /\ ~OtherWritable(sec_meta.mode)
    /\ sec_out = Err("Security", "writable by non-owners")

---------------------------------------------------------------------------
(* Claims about get_common_parent *)

\* the paths of a list agree on their first k components
AgreeOn(paths, k) ==
    \A i \in 1..Len(paths) :
        /\ Len(paths[i]) >= k
        /\ SubSeq(paths[i], 1, k) = SubSeq(paths[1], 1, k)

\* the longest common component prefix of a non-empty list of paths
LongestCommonPrefix(paths) ==
    LET k == CHOOSE n \in 0..Len(paths[1]) :
                 /\ AgreeOn(paths, n)
                 /\ n < Len(paths[1]) => ~AgreeOn(paths, n + 1)
    IN SubSeq(paths[1], 1, k)

\* the common ancestor as the specification words it: the parent of a single
\* path (none when it has no parent), the longest common prefix of several
CommonAncestorOfSpec(paths) ==
    IF paths = <<>> THEN None
    ELSE IF Len(paths) = 1 THEN PathParent(paths[1])
    ELSE LET prefix == LongestCommonPrefix(paths)
         IN IF prefix = <<>> THEN None ELSE Some(prefix)

\* the same, with the empty path for a single path that has no parent
CommonAncestorWithFallback(paths) ==
    IF Len(paths) = 1 /\ ~IsSome(PathParent(paths[1])) THEN Some(<<>>)
    ELSE CommonAncestorOfSpec(paths)

\* C8 as claimed: get_common_parent returns the common ancestor of the
\* specification on every list, a single path giving exactly its parent.
C8_AsClaimed ==
    cp_pc = "done" => cp_out = CommonAncestorOfSpec(cp_paths)

\* C8 (amended): get_common_parent returns none for the empty list, for a
\* single path its parent or the empty path when it has no parent, and for
\* two or more paths their longest common component prefix, none when that
\* prefix has no component.
C8_CommonParent ==
    cp_pc = "done" => cp_out = CommonAncestorWithFallback(cp_paths)

\* two absolute paths that diverge right after the root yield the root
C8_Witness ==
    /\ cp_pc = "done"
    /\ Len(cp_paths) = 2
    /\ Len(cp_paths[1]) = 2 /\ Len(cp_paths[2]) = 2
    /\ cp_paths[1][2] # cp_paths[2][2]
    /\ cp_out = Some(<<RootDir>>)

---------------------------------------------------------------------------
(* Claims about get_module_name *)

\* root is a proper component prefix of path
IsDescendant(path, root) ==
    /\ Len(root) < Len(path)
    /\ SubSeq(path, 1, Len(root)) = root

\* the text of a relative path with its final segment replaced by its stem
RelativeWithStem(path, root) ==
    LET rel == SubSeq(path, Len(root) + 1, Len(path))
        segs == [i \in 1..Len(rel) |->
                    IF i = Len(rel) THEN Unwrap(FileStem(<<rel[i]>>)) ELSE rel[i]]
    IN PathToString(segs)

\* the module name as the specification words it
ModuleNameOfSpec(root, path) ==
    IF ~IsDescendant(path, root) THEN None
    ELSE IF ~IsSome(FileStem(<<path[Len(path)]>>)) THEN None
    ELSE Some(ReplaceSeparators(RelativeWithStem(path, root)))

\* C9: get_module_name returns none when path is not a descendant of root or
\* its final component has no stem (path equal to root included), and else
\* the segments of path relative to root, the last replaced by its stem,
\* joined by '.', with '/' and '\' both separators.
C9_ModuleName ==
    mn_pc = "done" => mn_out = ModuleNameOfSpec(mn_root, mn_path)

---------------------------------------------------------------------------
(* Claims about process_python_rules *)

\* the module search path has been extended: the loop has been entered
LoopEntered == Len(sys_path) > 1

\* the batch has no common ancestor
NoAncestor(paths) == CommonAncestorWithFallback(paths) = None

RECURSIVE FixedOf(_)
\* the strings of the candidates that were fixed, in order
FixedOf(os) ==
    IF os = <<>> THEN <<>>
    ELSE (IF Head(os).step = "fixed" THEN Head(os).out ELSE <<>>)
         \o FixedOf(Tail(os))

\* C1: every file whose module is imported is a file check_security allows;
\* a file check_security denies (unstatable, owned by another uid, group-
\* or other-writable) is never imported, whatever else the batch holds.
C1_OnlyAllowedFilesImported ==
    \A f \in imported : check_security(files[f], EffectiveUid).ok

\* C3: once the loop is entered, a candidate that fails at any step is
\* skipped and contributes nothing; the call is never aborted, every
\* candidate is evaluated in turn and the call returns Ok.
C3_FailureIsLocal ==
    LoopEntered =>
        /\ pc # "done" => result = Pending
        /\ pc = "done" => result.ok /\ Len(outcome) = Len(rule_paths)
        /\ \A i \in 1..Len(outcome) : outcome[i].path = rule_paths[i]
        /\ Len(fixed_commands) =
              Cardinality({i \in 1..Len(outcome) : outcome[i].step = "fixed"})

\* a denied candidate is skipped, the next one is fixed, the call returns Ok
C3_Witness ==
    /\ pc = "done" /\ result.ok
    /\ Len(outcome) >= 2
    /\ outcome[1].step = "skipped"
    /\ outcome[1].path \in checked \ passed
    /\ outcome[2].step = "fixed"

\* C4: the returned sequence is, in the order of the candidates, the string
\* fix returned for each candidate whose match returned true, and nothing
\* for the others.
C4_OutputInOrder ==
    /\ pc \in {"loop", "import", "lookup", "match", "fix"} =>
          fixed_commands = FixedOf(outcome)
    /\ (pc = "done" /\ result.ok) =>
          /\ result.val = FixedOf(outcome)
          /\ \A i \in 1..Len(outcome) : outcome[i].path = rule_paths[i]

\* rules 1 and 3 match, rule 2 does not: ["cmd1", "cmd3"]
C4_Witness ==
    /\ pc = "done"
    /\ Len(outcome) = 3
    /\ outcome[1].step = "fixed" /\ outcome[2].step = "no_match"
    /\ outcome[3].step = "fixed"
    /\ result = Ok(<<"cmd1", "cmd3">>)

\* C5: a non-empty batch with no common ancestor fails with the Config error
\* "No common parent found", and neither initialises the interpreter nor
\* checks, imports or runs any candidate.
C5_NoCommonParent ==
    (pc # Idle /\ rule_paths # <<>> /\ NoAncestor(rule_paths)) =>
        /\ pc \in {"begin", "done"}
        /\ pc = "done" =>
              result = Err("Config", "No common parent found for rule paths")
        /\ ~py_initialized
        /\ sys_path = <<StdLibPath>>
        /\ checked = {} /\ imported = {} /\ outcome = <<>>

\* an absolute and a relative candidate: the Config error
C5_Witness ==
    /\ pc = "done"
    /\ rule_paths = <<FileAB, FileY>>
    /\ result.kind = "Config"

\* C6: an empty batch returns Ok with the empty sequence at once: the
\* interpreter is not initialised, sys.path not changed, no file touched.
C6_EmptyBatch ==
    (pc # Idle /\ rule_paths = <<>>) =>
        /\ pc \in {"begin", "done"}
        /\ pc = "done" => result = Ok(<<>>)
        /\ ~py_initialized
        /\ sys_path = <<StdLibPath>>
        /\ checked = {} /\ imported = {} /\ outcome = <<>>

\* the empty batch has returned
C6_Witness ==
    pc = "done" /\ rule_paths = <<>> /\ result = Ok(<<>>)

\* C7 as claimed: every error of the call is a Config error, of a non-empty
\* batch with no common ancestor.
C7_AsClaimed ==
    (pc = "done" /\ ~result.ok) =>
        /\ result.kind = "Config"
        /\ rule_paths # <<>> /\ NoAncestor(rule_paths)

\* C7 (amended): the call fails with the Config error exactly when a
\* non-empty batch has no common ancestor, and else only with a Python
\* error when sys cannot be imported or sys.path not read or extended,
\* before any candidate is checked; no failure of a candidate surfaces.
C7_Errors ==
    pc = "done" =>
        /\ (rule_paths # <<>> /\ NoAncestor(rule_paths)) <=>
              result = Err("Config", "No common parent found for rule paths")
        /\ (~result.ok /\ result.kind # "Config") =>
              /\ result.kind = "Python"
              /\ result.msg \in EngineFailures
              /\ ~LoopEntered
              /\ checked = {} /\ imported = {} /\ outcome = <<>>

\* the call has failed with a Python error
C7_Witness ==
    /\ pc = "done"
    /\ result = Err("Python", "sys.path is not a list")
    /\ rule_paths # <<>>

---------------------------------------------------------------------------
(* Claims about find_shell_in_process_tree *)

RECURSIVE Ancestry(_, _)
\* start, parent(start), ... up to a process with no parent entry or with
\* parent 0, at most n + 1 processes
Ancestry(pid, n) ==
    IF n = 0 \/ parents[pid] = None \/ parents[pid] = Some(0) THEN <<pid>>
    ELSE <<pid>> \o Ancestry(Unwrap(parents[pid]), n - 1)

HasShellName(pid) == names[pid] # None /\ Unwrap(names[pid]) \in KnownShells

\* the shell of the first shell-named process of the ancestry, if any
FirstShellOnChain(start) ==
    LET chain == Ancestry(start, MaxPid)
        hits == {i \in 1..Len(chain) : HasShellName(chain[i])}
    IN IF hits = {} THEN None
       ELSE LET first == CHOOSE i \in hits : \A j \in hits : i <= j
            IN names[chain[first]]

\* C10: find_shell_in_process_tree returns the shell of the first process
\* of the chain start, parent(start), ... whose name is exactly a known
\* shell, none when the chain ends (no parent entry, parent 0) before one;
\* only processes of that chain are inspected, pid 0 never as an ancestor.
C10_FindShell ==
    /\ sh_pc = "done" => sh_out = FirstShellOnChain(start_pid)
    /\ sh_pc # Idle =>
          /\ \A p \in sh_inspected :
                \E i \in 1..Len(Ancestry(start_pid, MaxPid)) :
                    Ancestry(start_pid, MaxPid)[i] = p
          /\ 0 \in sh_inspected => start_pid = 0

\* a shell found at an ancestor, above a start process whose name only
\* contains a shell name
C10_Witness ==
    /\ sh_pc = "done"
    /\ names[start_pid] = Some("bash_unknown")
    /\ sh_out = Some("zsh")
    /\ Cardinality(sh_inspected) = MaxPid

\* C11: the ancestry walk always terminates: for every process table (any
\* partial parent map) and every start pid the loop eventually returns.
C11_WalkTerminates == <>(sh_pc = "done")

---------------------------------------------------------------------------
(* main *)

\* args.shell.and_then(|shell| Shell::from_str(&shell).ok())
ShellByArgs ==
    IF IsSome(m_args_shell) THEN ShellFromStr(Unwrap(m_args_shell)) ELSE None

\* env::var("SH_SHELL").ok().and_then(|shell| Shell::from_str(..).ok())
get_current_shell_by_env ==
    IF IsSome(m_env_shell) THEN ShellFromStr(Unwrap(m_env_shell)) ELSE None

\* get_current_shell_by_env().or_else(get_current_shell_by_process)
get_current_shell ==
    IF IsSome(get_current_shell_by_env) THEN get_current_shell_by_env
    ELSE m_walk_shell

\* the Option that .context("Could not determine the current shell.") ends
ResolvedShell ==
    IF IsSome(ShellByArgs) THEN ShellByArgs ELSE get_current_shell

\* anyhow's error with the context message
Failure(msg) == Err("anyhow", msg)

mainInputs == <<m_args_shell, m_env_shell, m_walk_shell, m_command, m_prev_cmd>>
notMain == <<pyVars, cpVars, mnVars, secVars, shVars, natVars, alVars, thVars>>

\* println!
Println(line) == m_stdout' = Append(m_stdout, line)
\* a step of the run, in the order taken
Step(name) == m_steps' = Append(m_steps, name)
\* `?` on an error: main returns it
Fail(msg) == m_result' = Failure(msg) /\ m_pc' = "done"

\* no shell, found out only after the subcommand has read SH_PREV_CMD
MainShellUnresolved_late ==
    /\ m_pc = "begin"
    /\ ~IsSome(ResolvedShell)
    /\ m_steps' = m_steps \o
          (IF m_command = "fix" THEN <<"read_prev_cmd">> ELSE <<>>) \o
          <<"resolve_shell">>
    /\ Fail("Could not determine the current shell.")
    /\ UNCHANGED <<notMain, mainInputs, m_shell, m_stdout>>

\* no shell: the `?` of line 28 returns the error
MainShellUnresolved ==
    /\ m_pc = "begin"
    /\ ~IsSome(ResolvedShell)
    /\ Step("resolve_shell")
    /\ Fail("Could not determine the current shell.")
    /\ UNCHANGED <<notMain, mainInputs, m_shell, m_stdout>>

\* the shell is resolved: the match on args.command is next
MainShellResolved ==
    /\ m_pc = "begin"
    /\ IsSome(ResolvedShell)
    /\ m_shell' = ResolvedShell
    /\ Step("resolve_shell")
    /\ m_pc' = "dispatch"
    /\ UNCHANGED <<notMain, mainInputs, m_result, m_stdout>>

\* Alias and Setup: env::current_exe() fails
MainExeFails ==
    /\ m_pc = "dispatch"
    /\ m_command \in {"alias", "setup"}
    /\ Step("current_exe")
    /\ Fail("Could not determine the current executable path.")
    /\ UNCHANGED <<notMain, mainInputs, m_shell, m_stdout>>

\* Alias: the shell function is printed
MainAlias ==
    /\ m_pc = "dispatch"
    /\ m_command = "alias"
    /\ Step("get_shell_function")
    /\ Println("alias")
    /\ m_result' = Ok(<<>>)
    /\ m_pc' = "done"
    /\ UNCHANGED <<notMain, mainInputs, m_shell>>

\* Fix: SH_PREV_CMD is not set
MainFixNoPrevCmd ==
    /\ m_pc = "dispatch"
    /\ m_command = "fix"
    /\ ~IsSome(m_prev_cmd)
    /\ Step("read_prev_cmd")
    /\ Fail("SH_PREV_CMD environment variable is not set.")
    /\ UNCHANGED <<notMain, mainInputs, m_shell, m_stdout>>

\* Fix: SH_PREV_CMD is read
MainFixPrevCmd ==
    /\ m_pc = "dispatch"
    /\ m_command = "fix"
    /\ IsSome(m_prev_cmd)
    /\ Step("read_prev_cmd")
    /\ m_pc' = "expand"
    /\ UNCHANGED <<notMain, mainInputs, m_shell, m_result, m_stdout>>

\* Fix: misc::expand_aliases(&command, shell.get_aliases()) fails
MainExpandFails ==
    /\ m_pc = "expand"
    /\ Step("expand_aliases")
    /\ Fail("Failed to expand aliases")
    /\ UNCHANGED <<notMain, mainInputs, m_shell, m_stdout>>

\* Fix: the aliases are expanded
MainExpand ==
    /\ m_pc = "expand"
    /\ Step("expand_aliases")
    /\ m_pc' = "fix"
    /\ UNCHANGED <<notMain, mainInputs, m_shell, m_result, m_stdout>>

\* Fix: fix::fix_command fails
MainFixFails ==
    /\ m_pc = "fix"
    /\ Step("fix_command")
    /\ Fail("Failed to fix command")
    /\ UNCHANGED <<notMain, mainInputs, m_shell, m_stdout>>

\* Fix: the fixed command is printed
MainFix ==
    /\ m_pc = "fix"
    /\ Step("fix_command")
    /\ Println("fixed_command")
    /\ m_result' = Ok(<<>>)
    /\ m_pc' = "done"
    /\ UNCHANGED <<notMain, mainInputs, m_shell>>

\* Setup: shell.setup_alias fails with an error other than AlreadyExists
MainSetupAliasFails ==
    /\ m_pc = "dispatch"
    /\ m_command = "setup"
    /\ Step("setup_alias")
    /\ Fail("Failed to set up alias")
    /\ UNCHANGED <<notMain, mainInputs, m_shell, m_stdout>>

\* Setup: the alias is set up, or exists already
MainSetupAlias ==
    /\ m_pc = "dispatch"
    /\ m_command = "setup"
    /\ Step("setup_alias")
    /\ \E line \in {"Alias setup successfully", "Alias already exists"} :
          Println(line)
    /\ m_pc' = "rules"
    /\ UNCHANGED <<notMain, mainInputs, m_shell, m_result>>

\* Setup: the default rules cannot be created
MainSetupRulesFail ==
    /\ m_pc = "rules"
    /\ Step("create_default_fix_rules")
    /\ Fail("Failed to set up default rules")
    /\ UNCHANGED <<notMain, mainInputs, m_shell, m_stdout>>

\* Setup: the default rules are created, or exist already
MainSetupRules ==
    /\ m_pc = "rules"
    /\ Step("create_default_fix_rules")
    /\ \E line \in {"Default rules setup successfully", "Default rules already exist"} :
          Println(line)
    /\ m_result' = Ok(<<>>)
    /\ m_pc' = "done"
    /\ UNCHANGED <<notMain, mainInputs, m_shell>>

\* --shell and SH_SHELL: absent, a known shell, an unknown one
ShellSignals == {None, Some("zsh"), Some("tcsh")}
\* what find_shell_in_process_tree came to for process::id()
WalkResults == {None, Some("bash")}
\* the subcommands of the command line
Subcommands == {"alias", "fix", "setup"}
\* SH_PREV_CMD: unset, or the previous command
PrevCmds == {None, Some("cs /some/directory")}

InitMain ==
    /\ m_args_shell \in ShellSignals
    /\ m_env_shell \in ShellSignals
    /\ m_walk_shell \in WalkResults
    /\ m_command \in Subcommands
    /\ m_prev_cmd \in PrevCmds
    /\ m_shell = None
    /\ m_pc = "begin"
    /\ m_result = Pending
    /\ m_stdout = <<>>
    /\ m_steps = <<>>
    /\ CpIdle /\ MnIdle /\ SecIdle /\ ShIdle /\ PyIdle
    /\ NatIdle /\ AlIdle /\ ThIdle

NextMain ==
    \/ MainShellUnresolved \/ MainShellResolved
    \/ MainExeFails \/ MainAlias
    \/ MainFixNoPrevCmd \/ MainFixPrevCmd
    \/ MainExpandFails \/ MainExpand
    \/ MainFixFails \/ MainFix
    \/ MainSetupAliasFails \/ MainSetupAlias
    \/ MainSetupRulesFail \/ MainSetupRules

SpecMain == InitMain /\ [][NextMain]_vars

\* a signal is present and names a shell
Recognised(signal) == signal # None /\ Unwrap(signal) \in KnownShells

\* neither --shell, nor SH_SHELL, nor the ancestry walk yields a shell
NoShellAtAll ==
    /\ ~Recognised(m_args_shell)
    /\ ~Recognised(m_env_shell)
    /\ m_walk_shell = None

\* the steps of the fix: reading SH_PREV_CMD, expanding aliases, the rules
FixSteps == {"read_prev_cmd", "expand_aliases", "fix_command"}

\* C12: shell resolution precedes everything else in main: when neither
\* the explicit signal (used only if recognised) nor the ancestry walk
\* yields a shell, the run fails with an error, and SH_PREV_CMD is not
\* read, no alias is expanded, no rule runs and nothing is printed.
C12_ShellFirst ==
    /\ m_steps # <<>> => m_steps[1] = "resolve_shell"
    /\ (m_pc \notin {Idle, "begin"} /\ NoShellAtAll) =>
          /\ m_pc = "done"
          /\ m_result = Failure("Could not determine the current shell.")
          /\ m_steps = <<"resolve_shell">>
          /\ m_stdout = <<>>
    /\ (\E i \in 1..Len(m_steps) : m_steps[i] \in FixSteps) =>
          /\ ~NoShellAtAll
          /\ IsSome(m_shell)
    /\ m_stdout # <<>> => IsSome(m_shell)

\* a fix run with SH_PREV_CMD set and an unknown --shell has failed
C12_Witness ==
    /\ m_pc = "done"
    /\ NoShellAtAll
    /\ m_args_shell = Some("tcsh")
    /\ m_command = "fix"
    /\ IsSome(m_prev_cmd)
    /\ ~m_result.ok

---------------------------------------------------------------------------
(* NativeRule::fix_native *)

\* the variants of NativeRule, by their strum names
NativeRules == {"sudo", "to_cd", "unsudo", "mkdir_p", "cargo_no_command"}
\* the rules whose fix returns a Result
FallibleRules == {"mkdir_p", "cargo_no_command"}

\* the closure passed as fix_function: Some(fix(command)) for the
\* infallible rules; for the fallible ones Some(s) on Ok(s), and on Err(e)
\* a line on stderr and None
FixClosure(rule, fixed) ==
    IF fixed.ok THEN [out |-> Some(fixed.val), err |-> <<>>]
    ELSE [out |-> None, err |-> <<"Error in " \o rule \o " fix">>]

natInputs == <<n_rule, n_command, n_is_match, n_fix>>
notNat == <<pyVars, cpVars, mnVars, secVars, shVars, mainVars, alVars, thVars>>

\* match_and_fix evaluating fix_function although match_function is false
NativeNoMatch_fixes ==
    /\ n_pc = "call"
    /\ ~n_is_match
    /\ n_calls' = n_calls \o <<"is_match", "fix">>
    /\ n_out' = FixClosure(n_rule, n_fix).out
    /\ n_pc' = "done"
    /\ UNCHANGED <<notNat, natInputs, n_stderr>>

\* match_and_fix: match_function(command) is false, the result is None
NativeNoMatch ==
    /\ n_pc = "call"
    /\ ~n_is_match
    /\ n_calls' = Append(n_calls, "is_match")
    /\ n_out' = None
    /\ n_pc' = "done"
    /\ UNCHANGED <<notNat, natInputs, n_stderr>>

\* match_and_fix: match_function(command) is true
NativeMatch ==
    /\ n_pc = "call"
    /\ n_is_match
    /\ n_calls' = Append(n_calls, "is_match")
    /\ n_pc' = "fix"
    /\ UNCHANGED <<notNat, natInputs, n_out, n_stderr>>

\* fix_function(): the rule's fix gives a string
NativeFix ==
    /\ n_pc = "fix"
    /\ n_fix.ok
    /\ n_calls' = Append(n_calls, "fix")
    /\ n_out' = FixClosure(n_rule, n_fix).out
    /\ n_pc' = "done"
    /\ UNCHANGED <<notNat, natInputs, n_stderr>>

\* fix_function(): the fix of mkdir_p or cargo_no_command gives an error
NativeFixErr ==
    /\ n_pc = "fix"
    /\ ~n_fix.ok
    /\ n_calls' = Append(n_calls, "fix")
    /\ n_stderr' = n_stderr \o FixClosure(n_rule, n_fix).err
    /\ n_out' = FixClosure(n_rule, n_fix).out
    /\ n_pc' = "done"
    /\ UNCHANGED <<notNat, natInputs>>

\* Command::new(command, CommandOutput::new(stdout, stderr))
NewCommand(c, out, err) == [command |-> c, stdout |-> out, stderr |-> err]

\* the Commands of the tests
NativeCommands == { NewCommand("some_command", "", "permission denied"),
                    NewCommand("cs /some/directory", "", ""),
                    NewCommand("ls -l", "", "") }

\* what a rule's fix returns on a Command: a string, or for the fallible
\* rules an error
FixReturns(rule) ==
    {Ok(c) : c \in {"sudo some_command", "cd /some/directory"}}
        \cup (IF rule \in FallibleRules THEN {Err("fix", "error")} ELSE {})

InitNative ==
    /\ n_rule \in NativeRules
    /\ n_command \in NativeCommands
    /\ n_is_match \in BOOLEAN
    /\ n_fix \in FixReturns(n_rule)
    /\ n_pc = "call"
    /\ n_out = None
    /\ n_calls = <<>>
    /\ n_stderr = <<>>
    /\ CpIdle /\ MnIdle /\ SecIdle /\ ShIdle /\ PyIdle
    /\ MainIdle /\ AlIdle /\ ThIdle

NextNative == NativeNoMatch \/ NativeMatch \/ NativeFix \/ NativeFixErr

SpecNative == InitNative /\ [][NextNative]_vars

\* C13: fix_native evaluates the rule's is_match first and its fix only
\* when is_match returned true; it returns none when is_match is false, the
\* fix's string when fix succeeds, and none, with the error logged and
\* nothing propagated, when a fallible fix returns an error.
C13_FixNative ==
    /\ n_pc # Idle =>
          /\ n_calls \in {<<>>, <<"is_match">>, <<"is_match", "fix">>}
          /\ (\E i \in 1..Len(n_calls) : n_calls[i] = "fix") => n_is_match
    /\ n_pc = "done" =>
          /\ ~n_is_match =>
                n_out = None /\ n_calls = <<"is_match">> /\ n_stderr = <<>>
          /\ (n_is_match /\ n_fix.ok) =>
                n_out = Some(n_fix.val) /\ n_stderr = <<>>
          /\ (n_is_match /\ ~n_fix.ok) =>
                /\ n_rule \in FallibleRules
                /\ n_out = None
                /\ Len(n_stderr) = 1

\* mkdir_p matched and its fix returned an error
C13_Witness ==
    /\ n_pc = "done"
    /\ n_rule = "mkdir_p"
    /\ n_is_match
    /\ ~n_fix.ok
    /\ n_out = None
    /\ n_calls = <<"is_match", "fix">>

---------------------------------------------------------------------------
(* Claims about the script rules of a batch *)

\* a module lacks a required capability: match or fix is missing as an
\* attribute or is not callable
Lacks(shape) == shape.match # "callable" \/ shape.fix # "callable"

MissingFunctions == "missing required functions (match, fix)"

\* the diagnostic of a module that lacks a capability
DiagnosticOf(shape) ==
    IF shape.match = "absent" THEN "Failed to get 'match' function"
    ELSE IF shape.fix = "absent" THEN "Failed to get 'fix' function"
    ELSE MissingFunctions

\* the candidate evaluated last was imported and lacks a capability
LastLacks ==
    /\ IsSome(diag)
    /\ IsSome(Unwrap(diag).shape)
    /\ Lacks(Unwrap(Unwrap(diag).shape))

\* the candidate the diagnostic is about was skipped, contributed nothing,
\* had none of its functions called, and the loop has gone on
SkippedAndContinued ==
    LET d == Unwrap(diag)
    IN /\ idx = d.cand + 1
       /\ pc # "lookup" \/ idx <= Len(rule_paths)
       /\ outcome[d.cand] = Skipped(rule_paths[d.cand])
       /\ \A i \in 1..Len(calls) : calls[i].cand # d.cand

\* C14 as claimed: every imported rule that lacks match or fix, as an
\* attribute or as a callable, gets the "missing required functions"
\* diagnostic, contributes nothing and the loop continues.
C14_AsClaimed ==
    /\ pc \in {"match", "fix"} => ~Lacks(Unwrap(cur_module).shape)
    /\ LastLacks =>
          /\ Unwrap(diag).text = MissingFunctions
          /\ SkippedAndContinued

\* C14 (amended): an imported rule that lacks match or fix never has a
\* function called, contributes nothing and the loop continues; the
\* diagnostic is "Failed to get 'match' function" when match is missing,
\* "Failed to get 'fix' function" when match is there and fix is missing,
\* and "missing required functions" exactly when both are there and one of
\* them is not callable.
C14_MissingFunctions ==
    /\ pc \in {"match", "fix"} => ~Lacks(Unwrap(cur_module).shape)
    /\ LastLacks =>
          /\ Unwrap(diag).text = DiagnosticOf(Unwrap(Unwrap(diag).shape))
          /\ SkippedAndContinued
    /\ (IsSome(diag) /\ Unwrap(diag).text = MissingFunctions) =>
          /\ LastLacks
          /\ Unwrap(Unwrap(diag).shape).match # "absent"
          /\ Unwrap(Unwrap(diag).shape).fix # "absent"

\* a rule with a callable match and a fix that is not callable was reported
\* as missing required functions, and the next candidate has been matched
C14_Witness ==
    /\ pc = "fix"
    /\ IsSome(diag)
    /\ Unwrap(diag).text = MissingFunctions
    /\ Unwrap(diag).shape = Some([match |-> "callable", fix |-> "not_callable"])
    /\ Unwrap(diag).cand = 1
    /\ idx = 2

\* what the calls made so far must look like
CallsInOrder ==
    /\ \A i \in 1..Len(calls) :
          /\ calls[i].args = <<command.command, command.stdout, command.stderr>>
          /\ calls[i].cand \in 1..Len(rule_paths)
          /\ calls[i].fn = "fix" =>
                /\ i > 1
                /\ calls[i - 1].fn = "match"
                /\ calls[i - 1].cand = calls[i].cand
                /\ calls[i - 1].ret = "true"
    /\ \A i, j \in 1..Len(calls) :
          (calls[i].fn = calls[j].fn /\ calls[i].cand = calls[j].cand) => i = j

\* C16: fix is invoked only after match has returned true for the same
\* rule, never after false, an exception or a non-boolean; match and fix
\* are invoked at most once per candidate; both get the command text, the
\* captured stdout and the captured stderr of the input Command, which the
\* batch does not modify.
C16_FixOnlyAfterMatch == [](pc # Idle => CallsInOrder) /\ [][command' = command]_vars

\* a rule was matched and fixed, the next one did not match
C16_Witness ==
    /\ pc = "done"
    /\ Len(calls) = 3
    /\ calls[1].fn = "match" /\ calls[1].ret = "true"
    /\ calls[2].fn = "fix" /\ calls[2].cand = 1
    /\ calls[3].fn = "match" /\ calls[3].cand = 2 /\ calls[3].ret = "false"

---------------------------------------------------------------------------
(* parse_alias *)

\* longest text given to parse_alias, in characters
MaxRaw == 5

RECURSIVE SplitLines(_)
\* str::split('\n'): the pieces between line feeds, at least one
SplitLines(s) ==
    LET N == {i \in 1..Len(s) : s[i] = "\n"}
    IN IF N = {} THEN <<s>>
       ELSE LET k == CHOOSE i \in N : \A j \in N : i <= j
            IN <<SubSeq(s, 1, k - 1)>> \o SplitLines(SubSeq(s, k + 1, Len(s)))

\* str::contains('=')
ContainsEq(line) == \E i \in 1..Len(line) : line[i] = "="

\* str::split_once('='): the texts before and after the first '='
SplitOnceEq(line) ==
    LET k == CHOOSE i \in 1..Len(line) :
                 line[i] = "=" /\ \A j \in 1..(i - 1) : line[j] # "="
    IN [name |-> SubSeq(line, 1, k - 1), value |-> SubSeq(line, k + 1, Len(line))]

\* the test of lines 51-52 on a value that has a first byte
Quoted(value) ==
    \/ value[1] = "\"" /\ value[Len(value)] = "\""
    \/ value[1] = "'" /\ value[Len(value)] = "'"

\* the body of the loop for one line with '=': value_bytes[0] of an empty
\* value is out of bounds, and &value[1..value.len() - 1] of a value of one
\* byte has its start after its end: both panic
ParseLine(line) ==
    LET kv == SplitOnceEq(line)
    IN IF kv.value = <<>> THEN [panic |-> TRUE, name |-> kv.name, value |-> <<>>]
       ELSE IF ~Quoted(kv.value)
            THEN [panic |-> FALSE, name |-> kv.name, value |-> kv.value]
       ELSE IF Len(kv.value) = 1
            THEN [panic |-> TRUE, name |-> kv.name, value |-> <<>>]
       ELSE [panic |-> FALSE, name |-> kv.name,
             value |-> SubSeq(kv.value, 2, Len(kv.value) - 1)]

\* HashMap::insert: the value of an existing key is replaced
Insert(map, key, value) == (key :> value) @@ map

RECURSIVE ParseLines(_, _)
\* the for loop over the lines, from the aliases collected so far
ParseLines(lines, aliases) ==
    IF lines = <<>> THEN [panic |-> FALSE, aliases |-> aliases]
    ELSE IF ~ContainsEq(Head(lines)) \/ Head(lines) = <<>>
         THEN ParseLines(Tail(lines), aliases)
    ELSE LET r == ParseLine(Head(lines))
         IN IF r.panic THEN [panic |-> TRUE, aliases |-> aliases]
            ELSE ParseLines(Tail(lines), Insert(aliases, r.name, r.value))

parse_alias(raw_aliases) == ParseLines(SplitLines(raw_aliases), <<>>)

notAl == <<pyVars, cpVars, mnVars, secVars, shVars, mainVars, natVars, thVars>>

\* parse_alias returns the map
ParseAliasReturns ==
    /\ al_pc = "call"
    /\ ~parse_alias(al_raw).panic
    /\ al_out' = parse_alias(al_raw).aliases
    /\ al_pc' = "done"
    /\ UNCHANGED <<notAl, al_raw>>

\* parse_alias panics: the call does not return
ParseAliasPanics ==
    /\ al_pc = "call"
    /\ parse_alias(al_raw).panic
    /\ al_pc' = "panicked"
    /\ UNCHANGED <<notAl, al_raw, al_out>>

\* the characters of the alias dump: a letter, '=', the quotes, line feed
AliasChars == {"a", "=", "'", "\"", "\n"}

InitAlias ==
    /\ al_raw \in SeqUpTo(AliasChars, MaxRaw)
    /\ al_out = <<>>
    /\ al_pc = "call"
    /\ CpIdle /\ MnIdle /\ SecIdle /\ ShIdle /\ PyIdle
    /\ MainIdle /\ NatIdle /\ ThIdle

NextAlias == ParseAliasReturns \/ ParseAliasPanics

SpecAlias == InitAlias /\ [][NextAlias]_vars

\* one matching pair of enclosing quotes stripped when present
StripQuotes(v) ==
    IF /\ Len(v) >= 2
       /\ v[1] = v[Len(v)]
       /\ v[1] \in {"'", "\""}
    THEN SubSeq(v, 2, Len(v) - 1)
    ELSE v

\* the lines of a text that hold a '='
AliasLines(raw) ==
    LET lines == SplitLines(raw)
    IN {i \in 1..Len(lines) : ContainsEq(lines[i])}

\* the mapping of the claim: each name to the stripped value of the last
\* line that defines it
AliasesOfSpec(raw) ==
    LET lines == SplitLines(raw)
        defs == AliasLines(raw)
        keys == {SplitOnceEq(lines[i]).name : i \in defs}
        last(n) == CHOOSE i \in defs :
                      /\ SplitOnceEq(lines[i]).name = n
                      /\ \A j \in defs : SplitOnceEq(lines[j]).name = n => j <= i
    IN [n \in keys |-> StripQuotes(SplitOnceEq(lines[last(n)]).value)]

\* C15: for every input text parse_alias returns a mapping without
\* aborting: lines without '=' are ignored, every other line maps the text
\* before its first '=' to the text after it, one matching pair of
\* enclosing quotes stripped when present and unchanged otherwise, also
\* for an empty value and for a value that is a single quote character.
C15_ParseAlias ==
    al_pc # Idle =>
        /\ al_pc # "panicked"
        /\ al_pc = "done" =>
              /\ DOMAIN al_out = DOMAIN AliasesOfSpec(al_raw)
              /\ \A n \in DOMAIN al_out : al_out[n] = AliasesOfSpec(al_raw)[n]

\* C15, the part the code keeps: when parse_alias returns, the mapping is
\* the one of the claim.
C15_WhenItReturns ==
    al_pc = "done" =>
        /\ DOMAIN al_out = DOMAIN AliasesOfSpec(al_raw)
        /\ \A n \in DOMAIN al_out : al_out[n] = AliasesOfSpec(al_raw)[n]

---------------------------------------------------------------------------
(* Claims about the root of a batch *)

\* root is a component-prefix of path and shorter than it
ProperPrefix(root, path) ==
    /\ Len(root) < Len(path)
    /\ SubSeq(path, 1, Len(root)) = root

\* C17: the root get_common_parent returns is an ancestor directory of
\* every candidate: a proper component-prefix of each path, never a
\* candidate itself, also when the batch holds a path twice or a prefix of
\* another path; get_common_parent([p, p]) = get_common_parent([p]).
C17_RootIsAncestor ==
    (cp_pc = "done" /\ IsSome(cp_out)) =>
        /\ \A i \in 1..Len(cp_paths) : ProperPrefix(Unwrap(cp_out), cp_paths[i])
        /\ (Len(cp_paths) = 2 /\ cp_paths[1] = cp_paths[2]) =>
              cp_out = get_common_parent(<<cp_paths[1]>>)

\* C18: within a batch get_module_name is injective on the candidates under
\* the root: two distinct candidate paths never derive the same module
\* name, and the module imported for a candidate is that candidate's own
\* file.
C18_ModuleNamesInjective ==
    /\ LoopEntered =>
          \A i, j \in 1..Len(rule_paths) :
              (/\ rule_paths[i] # rule_paths[j]
               /\ IsSome(get_module_name(module_path, rule_paths[i])))
                  => get_module_name(module_path, rule_paths[i])
                        # get_module_name(module_path, rule_paths[j])
    /\ pc \in {"lookup", "match", "fix"} =>
          Unwrap(cur_module).file = rule_paths[idx]

---------------------------------------------------------------------------
(* process_python_rules called by several threads of one process *)

\* number of threads that call process_python_rules
MaxThreads == 2
\* number of candidates of each thread's batch
MaxCandidates == 2

Threads == 1..MaxThreads

\* the entries of sys.path: the common parent of the batch of thread t,
\* and the standard library as the entry of no thread
RootOf(t) == [batch |-> t]

notTh == <<pyVars, cpVars, mnVars, secVars, shVars, mainVars, natVars, alVars>>

\* thread t moves to position p
Goto(t, p) == th_pc' = [th_pc EXCEPT ![t] = p]

\* the positions at which the thread is inside code the interpreter runs:
\* py.import and call1
InPython == {"import", "run"}
\* the same positions, the thread not holding the interpreter lock
Suspended(p) == "suspended in " \o p

\* pyo3::prepare_freethreaded_python(): a Once, the first caller
\* initialises the interpreter
ThPrepare(t) ==
    /\ th_pc[t] = "begin"
    /\ th_inits' = IF th_inits = 0 THEN 1 ELSE th_inits
    /\ Goto(t, "acquire")
    /\ UNCHANGED <<notTh, th_idx, th_gil, th_sys_path, th_seen>>

\* Python::with_gil: the thread waits for the interpreter lock and takes it
ThAcquire(t) ==
    /\ th_pc[t] = "acquire"
    /\ th_gil = 0
    /\ th_gil' = t
    /\ Goto(t, "insert")
    /\ UNCHANGED <<notTh, th_idx, th_inits, th_sys_path, th_seen>>

\* sys.path.insert(0, module_path), then the loop starts
ThInsert(t) ==
    /\ th_pc[t] = "insert"
    /\ th_gil = t
    /\ th_sys_path' = <<RootOf(t)>> \o th_sys_path
    /\ th_idx' = [th_idx EXCEPT ![t] = 1]
    /\ Goto(t, "loop")
    /\ UNCHANGED <<notTh, th_gil, th_inits, th_seen>>

\* check_security and get_module_name of the next candidate, then
\* py.import is entered
ThNext(t) ==
    /\ th_pc[t] = "loop"
    /\ th_gil = t
    /\ th_idx[t] <= MaxCandidates
    /\ Goto(t, "import")
    /\ UNCHANGED <<notTh, th_idx, th_gil, th_inits, th_sys_path, th_seen>>

\* the interpreter, running the import machinery or a rule's code, gives
\* up its lock (on file input, or when another thread asks for it)
ThYield(t) ==
    /\ th_pc[t] \in InPython
    /\ th_gil = t
    /\ th_gil' = 0
    /\ Goto(t, Suspended(th_pc[t]))
    /\ UNCHANGED <<notTh, th_idx, th_inits, th_sys_path, th_seen>>

\* the interpreter takes its lock again and goes on in the thread
ThResume(t) ==
    /\ \E p \in InPython :
          /\ th_pc[t] = Suspended(p)
          /\ Goto(t, p)
    /\ th_gil = 0
    /\ th_gil' = t
    /\ UNCHANGED <<notTh, th_idx, th_inits, th_sys_path, th_seen>>

\* py.import finds the module along sys.path, from its head
ThImport(t) ==
    /\ th_pc[t] = "import"
    /\ th_gil = t
    /\ th_seen' = th_seen \cup {[thread |-> t, head |-> th_sys_path[1]]}
    /\ Goto(t, "run")
    /\ UNCHANGED <<notTh, th_idx, th_gil, th_inits, th_sys_path>>

\* match and fix of the candidate have run: the next iteration
ThRun(t) ==
    /\ th_pc[t] = "run"
    /\ th_gil = t
    /\ th_idx' = [th_idx EXCEPT ![t] = @ + 1]
    /\ Goto(t, "loop")
    /\ UNCHANGED <<notTh, th_gil, th_inits, th_sys_path, th_seen>>

\* the loop is over: the closure returns and with_gil gives the lock back
ThRelease(t) ==
    /\ th_pc[t] = "loop"
    /\ th_gil = t
    /\ th_idx[t] > MaxCandidates
    /\ th_gil' = 0
    /\ Goto(t, "done")
    /\ UNCHANGED <<notTh, th_idx, th_inits, th_sys_path, th_seen>>

InitThreads ==
    /\ th_pc = [t \in Threads |-> "begin"]
    /\ th_idx = [t \in Threads |-> 0]
    /\ th_gil = 0
    /\ th_inits = 0
    /\ th_sys_path = <<RootOf(0)>>
    /\ th_seen = {}
    /\ CpIdle /\ MnIdle /\ SecIdle /\ ShIdle /\ PyIdle
    /\ MainIdle /\ NatIdle /\ AlIdle

NextThreads ==
    \/ \E t \in Threads : ThPrepare(t)
    \/ \E t \in Threads : ThAcquire(t)
    \/ \E t \in Threads : ThInsert(t)
    \/ \E t \in Threads : ThNext(t)
    \/ \E t \in Threads : ThYield(t)
    \/ \E t \in Threads : ThResume(t)
    \/ \E t \in Threads : ThImport(t)
    \/ \E t \in Threads : ThRun(t)
    \/ \E t \in Threads : ThRelease(t)

SpecThreads == InitThreads /\ [][NextThreads]_vars

\* thread t is between the insertion of its root and the end of its loop
InBatch(t) == th_pc[t] \notin {"begin", "acquire", "insert", "done"}

\* C19: with several threads calling process_python_rules, the interpreter
\* is initialised at most once and the batches are serialised: at no time
\* are two batches between their insertion into sys.path and the end of
\* their loop, and every import of a batch sees the batch's own root at the
\* head of sys.path.
C19_BatchesSerialised ==
    th_pc # <<>> =>
        /\ th_inits <= 1
        /\ \A t, u \in Threads : (InBatch(t) /\ InBatch(u)) => t = u
        /\ \A s \in th_seen : s.head = RootOf(s.thread)

\* C19, the part the code keeps: one initialisation, and at most one
\* thread runs under the interpreter lock at a time.
C19_OneInitOneHolder ==
    th_pc # <<>> =>
        /\ th_inits <= 1
        /\ \A t \in Threads :
              th_pc[t] \in {"insert", "loop", "import", "run"} => th_gil = t

===========================================================================
